---- MODULE Spec2Model ----
(***************************************************************************)
(* Model of models/marts/finance/fct_mar_forecast.py: the dbt Python model *)
(* model(dbt, session) that forecasts next month's MAR for the connector   *)
(* ('fivetran_log', 'durable_biased').                                     *)
(*                                                                         *)
(* A DataFrame is a sequence of row records.  None is the empty sequence   *)
(* and a present value x is <<x>>.  Floating point numbers are modelled as *)
(* exact rationals <<numerator, denominator>> in lowest terms; a standard  *)
(* deviation is carried as its square (the variance), so that int() of     *)
(* "forecast +/- 1.96 * std" is computed exactly with integer comparisons. *)
(* IEEE rounding of the doubles is not modelled.                           *)
(***************************************************************************)
EXTENDS Integers, Sequences, FiniteSets, TLC

VARIABLES df,           \* the rows dbt.ref(...).to_pandas() returns
          forecast_df,  \* the DataFrame model() returns (<<>> before it ran)
          monthly_mar,  \* the local monthly_mar when model() returned
          branch,       \* the arm of the forecast logic that ran
          pc            \* "start", or the line of the return that was taken

vars == <<df, forecast_df, monthly_mar, branch, pc>>

None == <<>>
Some(x) == <<x>>

(***************************************************************************)
(* Exact arithmetic standing for the float arithmetic of the source.       *)
(***************************************************************************)
Abs(n) == IF n < 0 THEN -n ELSE n

RECURSIVE Gcd(_, _)
Gcd(a, b) == IF b = 0 THEN a ELSE Gcd(b, a % b)

\* the rational n/d in lowest terms with a positive denominator
Rat(n, d) ==
  LET s == IF d < 0 THEN -1 ELSE 1
      g == Gcd(Abs(n), Abs(d))
  IN  <<(s * n) \div g, (s * d) \div g>>

FromInt(n) == <<n, 1>>
RAdd(a, b) == Rat(a[1] * b[2] + b[1] * a[2], a[2] * b[2])
RSub(a, b) == Rat(a[1] * b[2] - b[1] * a[2], a[2] * b[2])
RMul(a, b) == Rat(a[1] * b[1], a[2] * b[2])
RDiv(a, b) == Rat(a[1] * b[2], a[2] * b[1])
RFloor(a) == a[1] \div a[2]

\* sign of n1/d1 - n2/d2 for positive integers, by the Euclidean algorithm
\* (no product is formed, so no intermediate value leaves the integer range)
RECURSIVE CmpFrac(_, _, _, _)
CmpFrac(n1, d1, n2, d2) ==
  LET q1 == n1 \div d1
      q2 == n2 \div d2
      r1 == n1 % d1
      r2 == n2 % d2
  IN  IF q1 # q2 THEN (IF q1 < q2 THEN -1 ELSE 1)
      ELSE IF r1 = 0 /\ r2 = 0 THEN 0
      ELSE IF r1 = 0 THEN -1
      ELSE IF r2 = 0 THEN 1
      ELSE CmpFrac(d2, r2, d1, r1)

\* sign of a*b - c*d for non-negative integers
CmpProd(a, b, c, d) ==
  IF a = 0 \/ b = 0 THEN (IF c = 0 \/ d = 0 THEN 0 ELSE -1)
  ELSE IF c = 0 \/ d = 0 THEN 1
  ELSE CmpFrac(a, c, d, b)

\* floor of the square root of a non-negative integer
RECURSIVE Isqrt(_)
Isqrt(n) ==
  IF n < 2 THEN n
  ELSE LET s == 2 * Isqrt(n \div 4)
       IN  IF (s + 1) * (s + 1) <= n THEN s + 1 ELSE s

\* sign of sqrt(w) - g for rationals w >= 0 and g
CmpSurd(w, g) ==
  IF g[1] < 0 THEN 1
  ELSE CmpProd(w[1], g[2] * g[2], g[1] * g[1], w[2])

\* floor(f + sqrt(w)) and floor(f - sqrt(w))
FloorPlus(f, w) ==
  LET base == RFloor(f) + Isqrt(RFloor(w))
  IN  IF CmpSurd(w, RSub(FromInt(base + 1), f)) >= 0 THEN base + 1 ELSE base

FloorMinus(f, w) ==
  LET base == RFloor(f) - Isqrt(RFloor(w))
  IN  IF CmpSurd(w, RSub(f, FromInt(base))) <= 0 THEN base ELSE base - 1

\* int(x) of a float: truncation towards zero
IntOfRat(f) == IF f[1] >= 0 THEN f[1] \div f[2] ELSE -((-f[1]) \div f[2])

IntOfPlus(f, w) ==
  LET fl == FloorPlus(f, w)
  IN  IF fl >= 0 \/ CmpSurd(w, RSub(FromInt(fl), f)) = 0 THEN fl ELSE fl + 1

\* int(max(0, f - sqrt(w)))
IntOfMax0Minus(f, w) ==
  LET fl == FloorMinus(f, w)
  IN  IF fl < 0 THEN 0 ELSE fl

(***************************************************************************)
(* Dates.  A measured_month is a calendar date [year, month, day]; after   *)
(* pd.to_datetime it is a Timestamp at midnight.                           *)
(***************************************************************************)
IsLeap(y) == (y % 4 = 0 /\ y % 100 # 0) \/ y % 400 = 0

DaysInMonth(y, m) ==
  IF m = 2 THEN (IF IsLeap(y) THEN 29 ELSE 28)
  ELSE IF m \in {4, 6, 9, 11} THEN 30 ELSE 31

Date(y, m, d) == [year |-> y, month |-> m, day |-> d]

\* the order of dates (and of Timestamps) used by sorting and by max()
DateLt(a, b) ==
  \/ a.year < b.year
  \/ a.year = b.year /\ a.month < b.month
  \/ a.year = b.year /\ a.month = b.month /\ a.day < b.day

\* pd.to_datetime of a date
ToDatetime(d) == [year |-> d.year, month |-> d.month, day |-> d.day, hour |-> 0]

\* a month step that does not carry December into the next year
AddOneMonthNoCarry(ts) ==
  LET m == IF ts.month = 12 THEN 1 ELSE ts.month + 1
      dim == DaysInMonth(ts.year, m)
  IN  [ts EXCEPT !.month = m, !.day = IF ts.day > dim THEN dim ELSE ts.day]

\* ts + pd.DateOffset(months=1): the next month, the day clipped to its length
AddOneMonth(ts) ==
  LET y == IF ts.month = 12 THEN ts.year + 1 ELSE ts.year
      m == IF ts.month = 12 THEN 1 ELSE ts.month + 1
      dim == DaysInMonth(y, m)
  IN  [ts EXCEPT !.year = y, !.month = m,
                 !.day = IF ts.day > dim THEN dim ELSE ts.day]

\* Timestamp.replace(day=1)
ReplaceDay1(ts) == [ts EXCEPT !.day = 1]

(***************************************************************************)
(* Filter and aggregation (lines 26-54).                                   *)
(***************************************************************************)
TargetConnection == "fivetran_log"
TargetDestination == "durable_biased"

\* a filter that forgets the destination
IsTargetConnectionOnly(r) == r.connection_name = TargetConnection

IsTarget(r) ==
  r.connection_name = TargetConnection /\ r.destination_id = TargetDestination

filtered_df(d) == SelectSeq(d, IsTarget)

\* an aggregation that keeps the last value of a month instead of the sum
AddToGroupsOverwrite(groups, r) ==
  LET m == r.measured_month
      v == r.total_monthly_active_rows
      others == SelectSeq(groups, LAMBDA g : g.measured_month # m)
      before == SelectSeq(others, LAMBDA g : DateLt(g.measured_month, m))
      after == SelectSeq(others, LAMBDA g : DateLt(m, g.measured_month))
  IN  before \o <<[measured_month |-> m, total_monthly_active_rows |-> v]>> \o after

\* one step of groupby('measured_month').sum(): add row r to its group, or
\* open a group for it at its place in key order (groupby sorts its keys)
AddToGroups(groups, r) ==
  LET m == r.measured_month
      v == r.total_monthly_active_rows
  IN  IF \E i \in 1..Len(groups) : groups[i].measured_month = m
      THEN [i \in 1..Len(groups) |->
              IF groups[i].measured_month = m
              THEN [groups[i] EXCEPT !.total_monthly_active_rows = @ + v]
              ELSE groups[i]]
      ELSE LET before == SelectSeq(groups, LAMBDA g : DateLt(g.measured_month, m))
               after == SelectSeq(groups, LAMBDA g : DateLt(m, g.measured_month))
           IN  before \o <<[measured_month |-> m, total_monthly_active_rows |-> v]>>
                      \o after

RECURSIVE GroupBySum(_)
GroupBySum(rows) ==
  IF rows = <<>> THEN <<>>
  ELSE AddToGroups(GroupBySum(SubSeq(rows, 1, Len(rows) - 1)), rows[Len(rows)])

\* sort_values('measured_month'): a stable insertion sort
RECURSIVE SortValues(_)
SortValues(rows) ==
  IF rows = <<>> THEN <<>>
  ELSE LET rest == SortValues(SubSeq(rows, 1, Len(rows) - 1))
           r == rows[Len(rows)]
           le == SelectSeq(rest, LAMBDA g : ~DateLt(r.measured_month, g.measured_month))
           gt == SelectSeq(rest, LAMBDA g : DateLt(r.measured_month, g.measured_month))
       IN  le \o <<r>> \o gt

Aggregate(d) == SortValues(GroupBySum(filtered_df(d)))

\* monthly_mar['measured_month'] = pd.to_datetime(...)
ConvertMonths(mm) ==
  [i \in 1..Len(mm) |-> [mm[i] EXCEPT !.measured_month = ToDatetime(@)]]

\* Series.max() of the measured_month column (non-empty)
MaxMonth(mm) ==
  LET S == {mm[i].measured_month : i \in 1..Len(mm)}
  IN  CHOOSE t \in S : \A u \in S : ~DateLt(t, u)

NextMonth(last_month) == ReplaceDay1(AddOneMonth(last_month))

(***************************************************************************)
(* Forecast logic (lines 80-115).                                          *)
(***************************************************************************)
TrendMinMonths == 3
TrendWindow == 6
MaWindow == 3
TrendWeight == <<7, 10>>
MaWeight == <<3, 10>>
\* the interval factor rounded to 2
Z95Rounded == <<2, 1>>
Z95 == <<49, 25>>
SinglePointSpread == <<1, 10>>

\* a float that is not a number
NaN == <<0, 0>>

\* Series.tail(n)
TailN(s, n) == IF Len(s) <= n THEN s ELSE SubSeq(s, Len(s) - n + 1, Len(s))

\* the column total_monthly_active_rows as an array
Values(mm) == [i \in 1..Len(mm) |-> mm[i].total_monthly_active_rows]

RECURSIVE SumSeq(_)
SumSeq(s) == IF s = <<>> THEN 0 ELSE s[Len(s)] + SumSeq(SubSeq(s, 1, Len(s) - 1))

\* Series.mean()
Mean(y) == Rat(SumSeq(y), Len(y))

\* the square of Series.std() (ddof = 1); NaN for fewer than two values
StdSq(y) ==
  LET k == Len(y)
      Sy == SumSeq(y)
      Syy == SumSeq([i \in 1..k |-> y[i] * y[i]])
  IN  IF k < 2 THEN NaN ELSE Rat(k * Syy - Sy * Sy, k * (k - 1))

\* np.polyfit(np.arange(len(y)), y, 1): <<slope, intercept>> of the least-squares
\* line, by the normal equations
Polyfit(y) ==
  LET k == Len(y)
      Sx == SumSeq([i \in 1..k |-> i - 1])
      Sxx == SumSeq([i \in 1..k |-> (i - 1) * (i - 1)])
      Sy == SumSeq(y)
      Sxy == SumSeq([i \in 1..k |-> (i - 1) * y[i]])
      slope == Rat(k * Sxy - Sx * Sy, k * Sxx - Sx * Sx)
      icept == RDiv(RSub(FromInt(Sy), RMul(slope, FromInt(Sx))), FromInt(k))
  IN  <<slope, icept>>

\* a window that is the whole history
recent_monthsAll(mm) == mm

recent_months(mm) == TailN(mm, TrendWindow)

\* final_forecast of the trend branch (lines 81-95)
TrendFinalForecast(mm) ==
  LET y == Values(recent_months(mm))
      coeffs == Polyfit(y)
      trend_slope == coeffs[1]
      intercept == coeffs[2]
      next_x == Len(y)
      forecast_mar == RAdd(RMul(trend_slope, FromInt(next_x)), intercept)
      ma_forecast == Mean(TailN(y, MaWindow))
  IN  RAdd(RMul(TrendWeight, forecast_mar), RMul(MaWeight, ma_forecast))

\* a mean branch that always takes Series.std()
MeanStdSqNoGuard(mm, final_forecast) == StdSq(Values(mm))

\* the square of std_dev in the mean branch (lines 103-107); final_forecast is
\* a mean of non-negative values, so final_forecast * 0.1 is its own absolute value
MeanStdSq(mm, final_forecast) ==
  IF Len(mm) > 1 THEN StdSq(Values(mm))
  ELSE RMul(RMul(final_forecast, SinglePointSpread),
            RMul(final_forecast, SinglePointSpread))

\* the square of 1.96 * std_dev
HalfWidthSq(std_sq) == RMul(RMul(Z95, Z95), std_sq)

\* lines 98-99, 108-109 and the int() casts of lines 122-124; int() of a NaN
\* raises ValueError
Bounds(final_forecast, std_sq) ==
  IF std_sq = NaN
  THEN [raised |-> TRUE, point |-> 0, lower |-> 0, upper |-> 0]
  ELSE [raised |-> FALSE,
        point |-> IntOfRat(final_forecast),
        lower |-> IntOfMax0Minus(final_forecast, HalfWidthSq(std_sq)),
        upper |-> IntOfPlus(final_forecast, HalfWidthSq(std_sq))]

\* the if / elif / else of lines 80-115 on the converted monthly_mar
ForecastLogic(mm) ==
  IF Len(mm) >= TrendMinMonths
  THEN [branch |-> "trend",
        est |-> Bounds(TrendFinalForecast(mm), StdSq(Values(recent_months(mm)))),
        last_month |-> Some(MaxMonth(mm)),
        next_month |-> Some(NextMonth(MaxMonth(mm)))]
  ELSE IF Len(mm) >= 1
  THEN [branch |-> "mean",
        est |-> Bounds(Mean(Values(mm)), MeanStdSq(mm, Mean(Values(mm)))),
        last_month |-> Some(MaxMonth(mm)),
        next_month |-> Some(NextMonth(MaxMonth(mm)))]
  ELSE [branch |-> "else",
        est |-> [raised |-> FALSE, point |-> 0, lower |-> 0, upper |-> 0],
        last_month |-> None,
        next_month |-> None]

(***************************************************************************)
(* The returned rows (lines 34-45, 58-69, 118-129).                        *)
(***************************************************************************)
NoDataRow(now) ==
  [connection_name |-> TargetConnection,
   destination_id |-> TargetDestination,
   forecast_month |-> None,
   forecasted_total_mar |-> 0,
   forecast_lower_bound |-> 0,
   forecast_upper_bound |-> 0,
   forecast_method |-> "no_data",
   historical_months_used |-> 0,
   last_historical_month |-> None,
   forecast_created_at |-> now]

\* an assembly that tags the mean branch on its own
ForecastRowMeanTag(mm, fc, now) ==
  [connection_name |-> TargetConnection,
   destination_id |-> TargetDestination,
   forecast_month |-> fc.next_month,
   forecasted_total_mar |-> fc.est.point,
   forecast_lower_bound |-> fc.est.lower,
   forecast_upper_bound |-> fc.est.upper,
   forecast_method |-> IF fc.branch = "mean" THEN "mean_based" ELSE "linear_trend_with_ma",
   historical_months_used |-> Len(mm),
   last_historical_month |-> fc.last_month,
   forecast_created_at |-> now]

ForecastRow(mm, fc, now) ==
  [connection_name |-> TargetConnection,
   destination_id |-> TargetDestination,
   forecast_month |-> fc.next_month,
   forecasted_total_mar |-> fc.est.point,
   forecast_lower_bound |-> fc.est.lower,
   forecast_upper_bound |-> fc.est.upper,
   forecast_method |-> "linear_trend_with_ma",
   historical_months_used |-> Len(mm),
   last_historical_month |-> fc.last_month,
   forecast_created_at |-> now]

\* an early return taken only for an empty table
NoRowsAtAll(d) == Len(d) = 0

\* the guard of the first early return (line 32)
NoMatchingRows(d) == Len(filtered_df(d)) = 0

\* model() on the table d at time now: the return taken, the arm that ran, the
\* local monthly_mar and the returned DataFrame
Run(d, now) ==
  IF NoMatchingRows(d)
  THEN [pc |-> "L46", branch |-> "none", monthly_mar |-> <<>>,
        forecast_df |-> <<NoDataRow(now)>>]
  ELSE LET grouped == Aggregate(d)
       IN  IF grouped = <<>>
           THEN [pc |-> "L70", branch |-> "none", monthly_mar |-> grouped,
                 forecast_df |-> <<NoDataRow(now)>>]
           ELSE LET mm == ConvertMonths(grouped)
                    fc == ForecastLogic(mm)
                IN  IF fc.est.raised
                    THEN [pc |-> "raised", branch |-> fc.branch,
                          monthly_mar |-> mm, forecast_df |-> <<>>]
                    ELSE [pc |-> "L131", branch |-> fc.branch,
                          monthly_mar |-> mm,
                          forecast_df |-> <<ForecastRow(mm, fc, now)>>]

(***************************************************************************)
(* The state machine: the upstream table is filled, then model() runs once.*)
(***************************************************************************)
MaxRows == 3
Instants == {1, 2}

OtherConnection == "other_connection"
OtherDestination == "other_destination"

Row(c, dst, m, v) ==
  [connection_name |-> c, destination_id |-> dst,
   measured_month |-> m, total_monthly_active_rows |-> v]

TargetRow(m, v) == Row(TargetConnection, TargetDestination, m, v)

AggMonths == {Date(2024, 3, 1), Date(2024, 3, 15), Date(2024, 4, 1)}

AggRows ==
  {TargetRow(m, v) : m \in AggMonths, v \in {50, 100}}
    \cup {Row(OtherConnection, TargetDestination, m, 100) : m \in AggMonths}
    \cup {Row(TargetConnection, OtherDestination, m, 100) : m \in AggMonths}

Init ==
  /\ df = <<>>
  /\ forecast_df = <<>>
  /\ monthly_mar = <<>>
  /\ branch = "none"
  /\ pc = "start"

\* a row of fivetran_platform__mar_table_history, of any key
InsertRow ==
  /\ pc = "start"
  /\ Len(df) < MaxRows
  /\ \E r \in AggRows : df' = Append(df, r)
  /\ UNCHANGED <<forecast_df, monthly_mar, branch, pc>>

\* model(dbt, session)
Model ==
  /\ pc = "start"
  /\ \E now \in Instants :
       LET out == Run(df, now)
       IN  /\ forecast_df' = out.forecast_df
           /\ monthly_mar' = out.monthly_mar
           /\ branch' = out.branch
           /\ pc' = out.pc
  /\ UNCHANGED df

Next == InsertRow \/ Model

Spec == Init /\ [][Next]_vars

(***************************************************************************)
(* SpecHist: a history of the target connector that grows by one calendar  *)
(* month at a time.                                                        *)
(***************************************************************************)
MaxVal == 2
ValStep == 2
MaxMonths == TrendWindow + 1

\* the i-th month of the history, from 2023-09 on
MonthAt(i) == Date(2023 + ((i + 7) \div 12), ((i + 7) % 12) + 1, 1)

AppendMonth ==
  /\ pc = "start"
  /\ Len(df) < MaxMonths
  /\ \E v \in 0..MaxVal :
       df' = Append(df, TargetRow(MonthAt(Len(df) + 1), v * ValStep))
  /\ UNCHANGED <<forecast_df, monthly_mar, branch, pc>>

NextHist == AppendMonth \/ Model

SpecHist == Init /\ [][NextHist]_vars

(***************************************************************************)
(* SpecDate: target rows whose measured_month is any day of any month.     *)
(***************************************************************************)
MaxDateRows == 2

DateDomain ==
  {Date(y, m, d) : y \in {2023, 2024}, m \in 1..12, d \in {1, 29, 31}}

ValidDates == {d \in DateDomain : d.day <= DaysInMonth(d.year, d.month)}

InsertDated ==
  /\ pc = "start"
  /\ Len(df) < MaxDateRows
  /\ \E d \in ValidDates : df' = Append(df, TargetRow(d, 1))
  /\ UNCHANGED <<forecast_df, monthly_mar, branch, pc>>

NextDate == InsertDated \/ Model

SpecDate == Init /\ [][NextDate]_vars

(***************************************************************************)
(* SpecSingle: target rows that all fall in one month.                     *)
(***************************************************************************)
MaxSingleVal == 12
MaxSingleRows == 2

InsertSingle ==
  /\ pc = "start"
  /\ Len(df) < MaxSingleRows
  /\ \E v \in 0..MaxSingleVal : df' = Append(df, TargetRow(Date(2024, 3, 1), v))
  /\ UNCHANGED <<forecast_df, monthly_mar, branch, pc>>

NextSingle == InsertSingle \/ Model

SpecSingle == Init /\ [][NextSingle]_vars

(***************************************************************************)
(* SpecP6: the history January..June 2024 with the values 100..150, its    *)
(* rows arriving in any order.                                             *)
(***************************************************************************)
P6Rows == {TargetRow(Date(2024, i, 1), 90 + 10 * i) : i \in 1..6}

InsertP6 ==
  /\ pc = "start"
  /\ \E r \in P6Rows :
       /\ \A i \in 1..Len(df) : df[i] # r
       /\ df' = Append(df, r)
  /\ UNCHANGED <<forecast_df, monthly_mar, branch, pc>>

NextP6 == InsertP6 \/ Model

SpecP6 == Init /\ [][NextP6]_vars

(***************************************************************************)
(* Vocabulary of the properties, stated on the input table itself.         *)
(***************************************************************************)
Returned == pc \in {"L46", "L70", "L131"}

out_row == forecast_df[1]

\* the indices of the input rows that carry the fixed key
MatchingIdx(d) ==
  {i \in 1..Len(d) : d[i].connection_name = "fivetran_log"
                       /\ d[i].destination_id = "durable_biased"}

\* the input without the rows of other keys
OnlyMatching(d) ==
  SelectSeq(d, LAMBDA r : r.connection_name = "fivetran_log"
                            /\ r.destination_id = "durable_biased")

RECURSIVE SumOver(_, _)
SumOver(d, I) ==
  IF I = {} THEN 0
  ELSE LET i == CHOOSE j \in I : TRUE
       IN  d[i].total_monthly_active_rows + SumOver(d, I \ {i})

\* the input rows of the fixed key that carry the date m
IdxOfMonth(d, m) == {i \in MatchingIdx(d) : d[i].measured_month = m}

\* the fields of a result other than forecast_created_at
SameButCreatedAt(a, b) ==
  /\ a.pc = b.pc
  /\ a.monthly_mar = b.monthly_mar
  /\ Len(a.forecast_df) = Len(b.forecast_df)
  /\ \A i \in 1..Len(a.forecast_df) :
       [a.forecast_df[i] EXCEPT !.forecast_created_at = 0]
         = [b.forecast_df[i] EXCEPT !.forecast_created_at = 0]

ThisRun == [pc |-> pc, monthly_mar |-> monthly_mar, forecast_df |-> forecast_df]

(***************************************************************************)
(* C2: an input with no row of the fixed key (empty, or only other keys)   *)
(* yields exactly one row: the no-data sentinel, and no error is raised.   *)
(***************************************************************************)
C2_NoDataSentinel ==
  (pc # "start" /\ MatchingIdx(df) = {}) =>
    /\ Returned
    /\ Len(forecast_df) = 1
    /\ out_row.forecasted_total_mar = 0
    /\ out_row.forecast_lower_bound = 0
    /\ out_row.forecast_upper_bound = 0
    /\ out_row.forecast_month = None
    /\ out_row.last_historical_month = None
    /\ out_row.forecast_method = "no_data"
    /\ out_row.historical_months_used = 0

C2_Witness ==
  /\ pc = "L46"
  /\ Len(df) >= 2
  /\ MatchingIdx(df) = {}
  /\ \E i \in 1..Len(df) : df[i].connection_name = "fivetran_log"
  /\ \E i \in 1..Len(df) : df[i].destination_id = "durable_biased"
  /\ out_row.forecast_method = "no_data"

(***************************************************************************)
(* C3: the monthly series holds, for each measured_month, the sum of the   *)
(* values of the input rows of the fixed key that carry it (100 and 50     *)
(* give 150), and rows of another key change nothing: removing them, or    *)
(* adding one more, leaves the result unchanged but for forecast_created_at*)
(***************************************************************************)
C3_Aggregation ==
  pc # "start" =>
    /\ pc # "L46" =>
         /\ \A m \in AggMonths :
              IdxOfMonth(df, m) # {} =>
                \E g \in 1..Len(monthly_mar) :
                  /\ monthly_mar[g].measured_month = ToDatetime(m)
                  /\ monthly_mar[g].total_monthly_active_rows
                       = SumOver(df, IdxOfMonth(df, m))
         /\ Len(monthly_mar) = Cardinality({m \in AggMonths : IdxOfMonth(df, m) # {}})
    /\ SameButCreatedAt(Run(OnlyMatching(df), 1), ThisRun)
    /\ \A r \in AggRows :
         (r.connection_name # "fivetran_log" \/ r.destination_id # "durable_biased")
           => /\ SameButCreatedAt(Run(Append(df, r), 1), ThisRun)
              /\ SameButCreatedAt(Run(<<r>> \o df, 2), ThisRun)

C3_Witness ==
  /\ pc = "L131"
  /\ \E i, j \in MatchingIdx(df) :
       /\ df[i].measured_month = df[j].measured_month
       /\ df[i].total_monthly_active_rows = 100
       /\ df[j].total_monthly_active_rows = 50
  /\ \E i \in 1..Len(df) : i \notin MatchingIdx(df)
  /\ Len(monthly_mar) = 1
  /\ monthly_mar[1].total_monthly_active_rows = 150

(***************************************************************************)
(* C5: historical_months_used is the number of distinct calendar months    *)
(* among the rows of the fixed key, whatever their day of month.           *)
(***************************************************************************)
CalendarMonths(d) == {<<d[i].measured_month.year, d[i].measured_month.month>> :
                        i \in MatchingIdx(d)}

C5_DistinctCalendarMonths ==
  pc = "L131" =>
    /\ out_row.historical_months_used = Cardinality(CalendarMonths(df))
    /\ Len(monthly_mar) = Cardinality(CalendarMonths(df))

C1_BoundOrdering ==
  pc = "L131" =>
    /\ out_row.forecast_lower_bound <= out_row.forecasted_total_mar
    /\ out_row.forecasted_total_mar <= out_row.forecast_upper_bound
    /\ out_row.forecast_lower_bound >= 0

(***************************************************************************)
(* C9: with n >= 3 months the point forecast and the bounds are computed   *)
(* from the last k = min(n, 6) monthly values alone: the point is          *)
(* 0.7 * (slope * k + intercept) + 0.3 * mean(last 3) for the least-squares*)
(* line through (0..k-1, values), the half-width is 1.96 sample standard   *)
(* deviations (divisor k - 1), and months older than the last six change   *)
(* none of the three numbers.                                              *)
(***************************************************************************)
\* the monthly values of a history whose rows are one per month, in order
HistValues(d) == [i \in 1..Len(d) |-> d[i].total_monthly_active_rows]

LastK(y) == LET k == IF Len(y) < 6 THEN Len(y) ELSE 6
            IN  [i \in 1..k |-> y[Len(y) - k + i]]

RECURSIVE RSum(_)
RSum(s) == IF s = <<>> THEN <<0, 1>> ELSE RAdd(s[Len(s)], RSum(SubSeq(s, 1, Len(s) - 1)))

\* the least-squares slope in covariance form: sum (x - mx)(y - my) / sum (x - mx)^2
CovSlope(y) ==
  LET k == Len(y)
      mx == Rat(k - 1, 2)
      my == Rat(SumSeq(y), k)
      sxy == RSum([i \in 1..k |-> RMul(RSub(FromInt(i - 1), mx), RSub(FromInt(y[i]), my))])
      sxx == RSum([i \in 1..k |-> RMul(RSub(FromInt(i - 1), mx), RSub(FromInt(i - 1), mx))])
  IN  RDiv(sxy, sxx)

CovIntercept(y) ==
  RSub(Rat(SumSeq(y), Len(y)), RMul(CovSlope(y), Rat(Len(y) - 1, 2)))

\* sum (y - my)^2 / (k - 1)
SampleVariance(y) ==
  LET k == Len(y)
      my == Rat(SumSeq(y), k)
  IN  RDiv(RSum([i \in 1..k |-> RMul(RSub(FromInt(y[i]), my), RSub(FromInt(y[i]), my))]),
           FromInt(k - 1))

\* both normal equations hold for the line (s, c) through (0..k-1, y)
IsLeastSquares(y, s, c) ==
  LET res == [i \in 1..Len(y) |->
                RSub(FromInt(y[i]), RAdd(RMul(s, FromInt(i - 1)), c))]
  IN  /\ RSum(res) = <<0, 1>>
      /\ RSum([i \in 1..Len(y) |-> RMul(FromInt(i - 1), res[i])]) = <<0, 1>>

ExpectedTrendPoint(y) ==
  LET k == Len(y)
      last3 == [i \in 1..3 |-> y[k - 3 + i]]
  IN  RAdd(RMul(<<7, 10>>, RAdd(RMul(CovSlope(y), FromInt(k)), CovIntercept(y))),
           RMul(<<3, 10>>, Rat(SumSeq(last3), 3)))

Numbers(row) ==
  <<row.forecasted_total_mar, row.forecast_lower_bound, row.forecast_upper_bound>>

C9_TrendWindow ==
  (pc # "start" /\ Len(df) >= 3) =>
    LET y == LastK(HistValues(df))
        point == ExpectedTrendPoint(y)
        hw == RMul(<<2401, 625>>, SampleVariance(y))
    IN  /\ pc = "L131"
        /\ branch = "trend"
        /\ IsLeastSquares(y, Polyfit(y)[1], Polyfit(y)[2])
        /\ out_row.forecasted_total_mar = IntOfRat(point)
        /\ out_row.forecast_upper_bound = IntOfPlus(point, hw)
        /\ out_row.forecast_lower_bound = IntOfMax0Minus(point, hw)
        /\ Len(df) > 6 =>
             \A v \in 0..MaxVal :
               Numbers(out_row)
                 = Numbers(Run([df EXCEPT ![Len(df) - 6].total_monthly_active_rows
                                            = v * ValStep],
                               1).forecast_df[1])

C9_Witness ==
  /\ pc = "L131"
  /\ Len(df) = 7
  /\ df[1].total_monthly_active_rows > df[2].total_monthly_active_rows
  /\ df[7].total_monthly_active_rows > df[6].total_monthly_active_rows
  /\ out_row.forecast_upper_bound > out_row.forecasted_total_mar

(***************************************************************************)
(* C4: forecast_month is the first day of the calendar month after the     *)
(* latest measured_month of the fixed key, whatever the days of month, and *)
(* last_historical_month is that latest measured_month.                    *)
(***************************************************************************)
DayNumber(d) == (d.year * 12 + (d.month - 1)) * 31 + d.day

LatestDate(d) ==
  CHOOSE m \in {d[i].measured_month : i \in MatchingIdx(d)} :
    \A i \in MatchingIdx(d) : DayNumber(d[i].measured_month) <= DayNumber(m)

FirstOfFollowingMonth(m) ==
  LET idx == m.year * 12 + m.month
  IN  [year |-> idx \div 12, month |-> (idx % 12) + 1, day |-> 1, hour |-> 0]

C4_MonthRollForward ==
  (pc # "start" /\ MatchingIdx(df) # {}) =>
    /\ pc = "L131"
    /\ out_row.forecast_month = Some(FirstOfFollowingMonth(LatestDate(df)))
    /\ out_row.last_historical_month
         = Some([year |-> LatestDate(df).year, month |-> LatestDate(df).month,
                 day |-> LatestDate(df).day, hour |-> 0])

C4_Witness ==
  /\ pc = "L131"
  /\ Len(df) = 2
  /\ df[1].measured_month = Date(2023, 12, 31)
  /\ df[2].measured_month = Date(2023, 1, 29)
  /\ out_row.forecast_month = Some([year |-> 2024, month |-> 1, day |-> 1, hour |-> 0])

(***************************************************************************)
(* C7: with exactly one month of history of aggregated value V, the spread *)
(* is 0.1 * V: point = V, upper = trunc(1.196 * V), lower =                *)
(* trunc(max(0, 0.804 * V)), upper - point is within 1 of 0.196 * V, and   *)
(* nothing is undefined.                                                   *)
(***************************************************************************)
C7_SinglePoint ==
  (pc # "start" /\ Cardinality({df[i].measured_month : i \in MatchingIdx(df)}) = 1) =>
    LET V == SumOver(df, MatchingIdx(df))
    IN  /\ pc = "L131"
        /\ out_row.historical_months_used = 1
        /\ out_row.forecasted_total_mar = V
        /\ out_row.forecast_upper_bound = (1196 * V) \div 1000
        /\ out_row.forecast_lower_bound = (804 * V) \div 1000
        /\ Abs(1000 * (out_row.forecast_upper_bound - out_row.forecasted_total_mar)
                 - 196 * V) < 1000

C7_Witness ==
  /\ pc = "L131"
  /\ Len(df) = 2
  /\ out_row.forecasted_total_mar = 17
  /\ out_row.forecast_upper_bound = 20
  /\ out_row.forecast_lower_bound = 13

(***************************************************************************)
(* C6: for January..June 2024 with the values 100, 110, ..., 150 the       *)
(* result is point 154, lower bound 117, upper bound 191, forecast month   *)
(* 2024-07-01, six months used.                                            *)
(***************************************************************************)
P6Loaded == \A r \in P6Rows : \E i \in 1..Len(df) : df[i] = r

====
